---- MODULE Spec2Model ----
(***************************************************************************)
(* Trace support of the OpenSearch datasource: the trace queries           *)
(* (src/unnamed/part_000, src/src/Traces.ts), the trace-list data frame    *)
(* and the span rows of one trace (src/src/traces/formatTraces.ts).        *)
(*                                                                         *)
(* JavaScript values are records of one shape, so that any two of them     *)
(* can be compared: k is the type tag, s/n/b the payload of a string,      *)
(* number or boolean, and keys/vals the own enumerable properties of an    *)
(* object or array in Object.keys order (n is an array's length).          *)
(*                                                                         *)
(* A raw key such as 'span.attributes.x' or 'a[0]' is a sequence of        *)
(* lexemes: "." , "[" , "]" and the maximal runs of other characters,      *)
(* e.g. <<"span", ".", "attributes", ".", "x">> and <<"a","[","0","]">>.   *)
(* set is lodash's set(object, path, value): the path syntax of its         *)
(* stringToPath, an array created for a missing index segment, an object   *)
(* for any other, a non-object on the way replaced.                        *)
(*                                                                         *)
(* pc is the call in progress and its position; wantedTraceId is the trace *)
(* the caller of a single-trace query builder asks for (the builders have  *)
(* no parameter for it).                                                   *)
(***************************************************************************)
EXTENDS Integers, Sequences, FiniteSets

VARIABLES pc, span, ki, nestedSpan, hasError, row,
          buckets, bi, traceIds, traceGroups, latency, errors, lastUpdated,
          frame, wantedTraceId, baseQuery, builtQuery

vars == <<pc, span, ki, nestedSpan, hasError, row,
          buckets, bi, traceIds, traceGroups, latency, errors, lastUpdated,
          frame, wantedTraceId, baseQuery, builtQuery>>

(* ------------------------------ bounds -------------------------------- *)

\* the most keys of a document whose keys are taken in every order
MaxKeys == 3
\* the most events of a span
MaxEvents == 2
\* the most buckets of a trace-list response
MaxBuckets == 2

(* -------------------------- JavaScript values -------------------------- *)

JsValue(k, s, n, b, keys, vals) ==
  [k |-> k, s |-> s, n |-> n, b |-> b, keys |-> keys, vals |-> vals]

Undefined == JsValue("undefined", "", 0, FALSE, <<>>, <<>>)
NaN == JsValue("nan", "", 0, FALSE, <<>>, <<>>)
Str(s) == JsValue("string", s, 0, FALSE, <<>>, <<>>)
Num(n) == JsValue("number", "", n, FALSE, <<>>, <<>>)
Bool(b) == JsValue("boolean", "", 0, b, <<>>, <<>>)
Obj(keys, vals) == JsValue("object", "", 0, FALSE, keys, vals)

\* the names of the array indices (one digit is enough for the arrays here)
IndexNames == <<"0", "1", "2", "3", "4", "5", "6", "7", "8", "9">>

Arr(elems) ==
  JsValue("array", "", Len(elems), FALSE, [i \in 1..Len(elems) |-> IndexNames[i]], elems)

\* lodash isObject: arrays and plain objects (no functions or null in a JSON document)
isObject(v) == v.k \in {"object", "array"}

\* ToBoolean, as applied by `?:` and by Array.prototype.some/filter to a callback's result
Truthy(v) ==
  CASE v.k = "undefined" -> FALSE
    [] v.k = "nan" -> FALSE
    [] v.k = "boolean" -> v.b
    [] v.k = "number" -> v.n # 0
    [] v.k = "string" -> v.s # ""
    [] OTHER -> TRUE

Digit(d) ==
  CASE d = 0 -> "0" [] d = 1 -> "1" [] d = 2 -> "2" [] d = 3 -> "3" [] d = 4 -> "4"
    [] d = 5 -> "5" [] d = 6 -> "6" [] d = 7 -> "7" [] d = 8 -> "8" [] OTHER -> "9"

RECURSIVE NatToString(_)
NatToString(n) == IF n < 10 THEN Digit(n) ELSE NatToString(n \div 10) \o Digit(n % 10)

\* ToString, as applied by a template literal `${v}` to a primitive
ToString(v) ==
  CASE v.k = "string" -> v.s
    [] v.k = "number" -> NatToString(v.n)
    [] v.k = "boolean" -> IF v.b THEN "true" ELSE "false"
    [] v.k = "nan" -> "NaN"
    [] v.k = "undefined" -> "undefined"
    [] v.k = "array" -> ""
    [] OTHER -> "[object Object]"

\* lodash isIndex on a path segment: /^(?:0|[1-9]\d*)$/ (one-digit segments here)
isIndex(seg) == \E i \in 1..Len(IndexNames) : IndexNames[i] = seg
IndexValue(seg) == (CHOOSE i \in 1..Len(IndexNames) : IndexNames[i] = seg) - 1

\* v[key]: a property read; undefined when v has no such own property
Prop(v, key) ==
  IF \E i \in 1..Len(v.keys) : v.keys[i] = key
  THEN v.vals[CHOOSE i \in 1..Len(v.keys) : v.keys[i] = key]
  ELSE Undefined

HasOwn(v, key) == \E i \in 1..Len(v.keys) : v.keys[i] = key

\* where a new own property goes in Object.keys order: integer indices first, in
\* ascending order, then the other names in the order they were created
InsertAt(v, key) ==
  IF isIndex(key)
  THEN LET later == {i \in 1..Len(v.keys) :
                       ~isIndex(v.keys[i]) \/ IndexValue(v.keys[i]) > IndexValue(key)}
       IN IF later = {} THEN Len(v.keys) + 1
          ELSE CHOOSE i \in later : \A j \in later : i <= j
  ELSE Len(v.keys) + 1

InsertSeq(sq, at, x) ==
  [i \in 1..(Len(sq) + 1) |-> IF i < at THEN sq[i] ELSE IF i = at THEN x ELSE sq[i - 1]]

\* v[key] = val on an object or array (lodash assignValue / baseAssignValue)
assignValue(v, key, val) ==
  IF HasOwn(v, key)
  THEN [v EXCEPT !.vals[CHOOSE i \in 1..Len(v.keys) : v.keys[i] = key] = val]
  ELSE LET at == InsertAt(v, key)
       IN [v EXCEPT !.keys = InsertSeq(v.keys, at, key),
                    !.vals = InsertSeq(v.vals, at, val),
                    !.n = IF v.k = "array" /\ isIndex(key) /\ IndexValue(key) >= v.n
                          THEN IndexValue(key) + 1 ELSE v.n]

(* ------------------------- lodash set(object, path, value) ------------- *)

IsSpecial(lexeme) == lexeme \in {".", "[", "]"}

RECURSIVE KeyString(_)
\* the key as the one string it is in the document
KeyString(key) == IF key = <<>> THEN "" ELSE Head(key) \o KeyString(Tail(key))

\* lodash reIsDeepProp: the key holds a "." or a "[...]" with no bracket inside
reIsDeepProp(key) ==
  \/ \E i \in 1..Len(key) : key[i] = "."
  \/ \E i, j \in 1..Len(key) :
       /\ i < j /\ key[i] = "[" /\ key[j] = "]"
       /\ \A m \in (i + 1)..(j - 1) : key[m] \notin {"[", "]"}

\* lodash isKey(value, object): a property name rather than a property path
isKey(key, object) == ~reIsDeepProp(key) \/ HasOwn(object, KeyString(key))

\* the third alternative of lodash rePropName, an empty match: a "." or "[]" that is
\* followed by a ".", by "[]" or by the end of the key
DotOrBrackets(key, i) ==
  IF i > Len(key) THEN 0
  ELSE IF key[i] = "." THEN 1
  ELSE IF key[i] = "[" /\ i + 1 <= Len(key) /\ key[i + 1] = "]" THEN 2
  ELSE 0

EmptySegmentAt(key, i) ==
  /\ DotOrBrackets(key, i) > 0
  /\ LET j == i + DotOrBrackets(key, i)
     IN j > Len(key) \/ DotOrBrackets(key, j) > 0

RECURSIVE rePropNameScan(_, _)
\* string.replace(rePropName, ...) from lexeme i on: the segments pushed
rePropNameScan(key, i) ==
  IF i > Len(key) THEN <<>>
  ELSE IF ~IsSpecial(key[i]) THEN <<key[i]>> \o rePropNameScan(key, i + 1)
  ELSE IF /\ key[i] = "[" /\ i + 2 <= Len(key)
          /\ isIndex(key[i + 1]) /\ key[i + 2] = "]"
       THEN <<key[i + 1]>> \o rePropNameScan(key, i + 3)
  ELSE IF EmptySegmentAt(key, i) THEN <<"">> \o rePropNameScan(key, i + 1)
  ELSE rePropNameScan(key, i + 1)

\* lodash stringToPath
stringToPath(key) ==
  (IF key # <<>> /\ key[1] = "." THEN <<"">> ELSE <<>>) \o rePropNameScan(key, 1)

\* lodash castPath
castPath(key, object) == IF isKey(key, object) THEN <<KeyString(key)>> ELSE stringToPath(key)

\* a container lodash creates for a missing portion of the path
NewContainer(nextSeg) ==
  IF isIndex(nextSeg) THEN Arr(<<>>) ELSE Obj(<<>>, <<>>)

RECURSIVE baseSet(_, _, _, _)
\* lodash baseSet from path[index] on: a non-object on the way is replaced by a new
\* container, the value is assigned at the last segment
baseSet(nested, path, index, value) ==
  LET key == path[index]
  IN IF index = Len(path)
     THEN assignValue(nested, key, value)
     ELSE LET objValue == Prop(nested, key)
              newValue == IF isObject(objValue) THEN objValue
                          ELSE NewContainer(path[index + 1])
          IN assignValue(nested, key, baseSet(newValue, path, index + 1, value))

\* faulty variant of set: the value is put under the whole key, no path is followed
\* (nestedSpan[key] = spanData[key])
setFlat(object, key, value) == assignValue(object, KeyString(key), value)

\* set(nestedSpan, key, spanData[key])
set(object, key, value) == baseSet(object, castPath(key, object), 1, value)

RECURSIVE setAll(_, _)
\* Object.keys(spanData).map(key => set(nestedSpan, key, spanData[key])) on the
\* entries of spanData that are left
setAll(object, entries) ==
  IF entries = <<>> THEN object
  ELSE setAll(set(object, Head(entries).key, Head(entries).value), Tail(entries))

(* ------------------------------ span rows ------------------------------ *)

\* new Date(v).getTime() for the time strings of the documents below
DateGetTime(v) ==
  CASE v.k = "string" /\ v.s = "1970-01-01T00:00:01Z" -> Num(1000)
    [] v.k = "string" /\ v.s = "1970-01-01T00:00:02.500Z" -> Num(2500)
    [] v.k = "number" -> v
    [] OTHER -> NaN

\* nestedSpan.durationInNanos * 0.000001: a whole number of milliseconds stays a
\* number, anything else that is a number is kept as n * 10^-6 ("micro")
TimesMicro(v) ==
  CASE v.k = "number" /\ v.n % 1000000 = 0 -> Num(v.n \div 1000000)
    [] v.k = "number" -> JsValue("micro", "", v.n, FALSE, <<>>, <<>>)
    [] OTHER -> NaN

\* event.attributes.error
EventError(event) == Prop(Prop(event, "attributes"), "error")

\* faulty variant of spanHasError: `every` in place of `some`
spanHasErrorEvery(spanEvents) ==
  \A i \in 1..Len(spanEvents.vals) : Truthy(EventError(spanEvents.vals[i]))

spanHasError(spanEvents) ==
  \E i \in 1..Len(spanEvents.vals) : Truthy(EventError(spanEvents.vals[i]))

\* events.filter(event => event.attributes.error)
ErrorEvents(events) ==
  SelectSeq(events.vals, LAMBDA event : Truthy(EventError(event)))

\* faulty variant of getStackTraces: the events are not filtered
getStackTracesUnfiltered(events) ==
  LET stackTraces == [i \in 1..Len(events.vals) |->
                        ToString(Prop(events.vals[i], "name")) \o ": "
                          \o ToString(EventError(events.vals[i]))]
  IN IF Len(stackTraces) > 0
     THEN [undefined |-> FALSE, list |-> stackTraces]
     ELSE [undefined |-> TRUE, list |-> <<>>]

\* the stack traces, or undefined when no event has an error
getStackTraces(events) ==
  LET errorEvents == ErrorEvents(events)
      stackTraces == [i \in 1..Len(errorEvents) |->
                        ToString(Prop(errorEvents[i], "name")) \o ": "
                          \o ToString(EventError(errorEvents[i]))]
  IN IF Len(stackTraces) > 0
     THEN [undefined |-> FALSE, list |-> stackTraces]
     ELSE [undefined |-> TRUE, list |-> <<>>]

\* Object.keys(tags) of a value: own properties of an object or array, none of a
\* number or boolean
convertToKeyValue(tags) ==
  [i \in 1..Len(tags.keys) |-> [key |-> tags.keys[i], value |-> tags.vals[i]]]

transformEventsIntoLogs(events) ==
  [i \in 1..Len(events.vals) |->
     [timestamp |-> DateGetTime(Prop(events.vals[i], "time")),
      fields |-> <<[key |-> "name", value |-> Prop(events.vals[i], "name")]>>]]

\* `nestedSpan.events ? spanHasError(nestedSpan.events) : false`
HasErrorOf(nested) ==
  LET events == Prop(nested, "events")
  IN IF Truthy(events) THEN spanHasError(events) ELSE FALSE

\* the callback throws a TypeError: `.some` of a truthy value that is no array, or
\* `.length` of undefined
RowThrows(nested) ==
  LET events == Prop(nested, "events")
  IN \/ Truthy(events) /\ events.k # "array"
     \/ events.k = "undefined"

\* faulty variant of RowTags: the error flag comes first
RowTagsErrorFirst(nested, hasErr) ==
  LET attributes == Prop(Prop(nested, "span"), "attributes")
  IN <<[key |-> "error", value |-> Bool(hasErr)]>>
       \o convertToKeyValue(IF attributes.k = "undefined" THEN Obj(<<>>, <<>>) ELSE attributes)

\* the tags of the row: the span attributes, then the error flag
RowTags(nested, hasErr) ==
  LET attributes == Prop(Prop(nested, "span"), "attributes")
  IN convertToKeyValue(IF attributes.k = "undefined" THEN Obj(<<>>, <<>>) ELSE attributes)
       \o <<[key |-> "error", value |-> Bool(hasErr)]>>

RowServiceTags(nested) ==
  LET attributes == Prop(Prop(nested, "resource"), "attributes")
  IN IF Truthy(attributes) THEN convertToKeyValue(attributes) ELSE <<>>

\* `...(hasError ? { stackTraces: getStackTraces(nestedSpan.events) } : {})`
RowStackTraces(nested, hasErr) ==
  IF hasErr
  THEN [present |-> TRUE, value |-> getStackTraces(Prop(nested, "events"))]
  ELSE [present |-> FALSE, value |-> [undefined |-> TRUE, list |-> <<>>]]

\* `nestedSpan.events.length ? transformEventsIntoLogs(nestedSpan.events) : []`
RowLogs(nested) ==
  LET events == Prop(nested, "events")
  IN IF events.k = "array" /\ events.n # 0 THEN transformEventsIntoLogs(events) ELSE <<>>

\* the object the callback of transformTraceResponse returns
SpanRow(nested, hasErr) ==
  [parentSpanID |-> Prop(nested, "parentSpanId"),
   traceID |-> Prop(nested, "traceId"),
   spanID |-> Prop(nested, "spanId"),
   operationName |-> Prop(nested, "name"),
   startTime |-> DateGetTime(Prop(nested, "startTime")),
   duration |-> TimesMicro(Prop(nested, "durationInNanos")),
   serviceName |-> Prop(nested, "serviceName"),
   tags |-> RowTags(nested, hasErr),
   serviceTags |-> RowServiceTags(nested),
   stackTraces |-> RowStackTraces(nested, hasErr),
   logs |-> RowLogs(nested)]

NoRow == [none |-> TRUE]
EmptyObject == Obj(<<>>, <<>>)

(* --------------------------- the documents ----------------------------- *)

Entry(key, value) == [key |-> key, value |-> value]

\* keys and values a document is made of
PathPool ==
  { Entry(<<"a">>, Num(1)),
    Entry(<<"a", ".", "b">>, Num(2)),
    Entry(<<"a", ".", "b", ".", "c">>, Str("deep")),
    Entry(<<"a", ".", "0">>, Num(3)),
    Entry(<<"a", "[", "0", "]">>, Num(4)),
    Entry(<<"traceId">>, Str("t1")),
    Entry(<<"span", ".", "attributes", ".", "x">>, Str("GET")),
    Entry(<<"span", ".", "attributes", ".", "y">>, Num(200)),
    Entry(<<"span">>, Obj(<<"attributes">>, <<Obj(<<"z">>, <<Str("v")>>)>>)),
    Entry(<<"span", ".", "attributes">>, Obj(<<>>, <<>>)),
    Entry(<<"resource", ".", "attributes", ".", "r">>, Str("svc")) }

RECURSIVE SeqsUpTo(_, _)
\* the sequences over pool of length at most n
SeqsUpTo(pool, n) ==
  IF n = 0 THEN {<<>>}
  ELSE LET shorter == SeqsUpTo(pool, n - 1)
       IN shorter \cup {Append(sq, x) : sq \in shorter, x \in pool}

DistinctKeys(doc) ==
  \A i, j \in 1..Len(doc) : i # j => doc[i].key # doc[j].key

\* documents without an `events` key, their keys in any order
PathDocs == {doc \in SeqsUpTo(PathPool, MaxKeys) : DistinctKeys(doc)}

Event(name, time, attributes) ==
  Obj(<<"name", "time", "attributes">>, <<Str(name), Str(time), attributes>>)

EventPool ==
  { Event("exception", "1970-01-01T00:00:01Z", Obj(<<"error">>, <<Str("boom")>>)),
    Event("exception", "1970-01-01T00:00:02.500Z", Obj(<<"error">>, <<Bool(TRUE)>>)),
    Event("timeout", "1970-01-01T00:00:01Z", Obj(<<"error">>, <<Num(1)>>)),
    Event("retry", "1970-01-01T00:00:01Z", Obj(<<>>, <<>>)),
    Event("retry", "bad time", Obj(<<"error">>, <<Bool(FALSE)>>)),
    Event("retry", "1970-01-01T00:00:02.500Z", Obj(<<"error">>, <<Num(0)>>)),
    Event("retry", "1970-01-01T00:00:01Z", Obj(<<"error">>, <<Str("")>>)) }

EventLists == SeqsUpTo(EventPool, MaxEvents)

CoreFields ==
  << Entry(<<"traceId">>, Str("t1")),
     Entry(<<"spanId">>, Str("s2")),
     Entry(<<"parentSpanId">>, Str("s1")),
     Entry(<<"name">>, Str("GET /")),
     Entry(<<"serviceName">>, Str("frontend")),
     Entry(<<"startTime">>, Str("1970-01-01T00:00:01Z")),
     Entry(<<"durationInNanos">>, Num(2000000)) >>

AttributeParts ==
  { <<>>,
    <<Entry(<<"span", ".", "attributes", ".", "x">>, Str("GET"))>>,
    <<Entry(<<"span", ".", "attributes", ".", "x">>, Str("GET")),
      Entry(<<"span", ".", "attributes", ".", "y">>, Num(200))>>,
    <<Entry(<<"span", ".", "attributes", ".", "y">>, Num(200)),
      Entry(<<"resource", ".", "attributes", ".", "r">>, Str("svc")),
      Entry(<<"span", ".", "attributes", ".", "x">>, Str("GET"))>>,
    <<Entry(<<"span", ".", "attributes", ".", "error">>, Str("attr")),
      Entry(<<"span", ".", "attributes", ".", "x">>, Str("GET"))>>,
    <<Entry(<<"resource", ".", "attributes", ".", "r">>, Str("svc"))>> }

\* span documents: the core fields or none, some attributes, and an `events` array
\* or none
SpanDocs ==
  { core \o attributes \o events :
      core \in {<<>>, CoreFields},
      attributes \in AttributeParts,
      events \in {<<>>} \cup {<<Entry(<<"events">>, Arr(list))>> : list \in EventLists} }

\* the documents of PathDocs with an empty `events` array at the end
PathDocsWithEvents == {doc \o <<Entry(<<"events">>, Arr(<<>>))>> : doc \in PathDocs}

Docs == PathDocs \cup PathDocsWithEvents \cup SpanDocs

(* ---------------------------- the trace list --------------------------- *)

Bucket(key, groups, lat, errorCount, updated) ==
  [key |-> key, trace_group |-> [buckets |-> groups], latency |-> [value |-> lat],
   error_count |-> [doc_count |-> errorCount], last_updated |-> [value |-> updated]]

\* buckets of response[0].aggregations.traces.buckets (latency in hundredths of a ms)
BucketPool ==
  { Bucket("abc", <<[key |-> "checkout"]>>, 4250, 2, "2024-01-01T00:00:00Z"),
    Bucket("def", <<[key |-> "login"], [key |-> "checkout"]>>, 1, 0, "2024-01-02T00:00:00Z"),
    Bucket("abc", <<[key |-> "login"]>>, 0, 0, "2024-01-01T00:00:00Z"),
    Bucket("aaa", <<>>, 700, 1, "2024-01-03T00:00:00Z") }

BucketLists == SeqsUpTo(BucketPool, MaxBuckets)

\* faulty variant of firstTraceGroup: `buckets[0]?.key`, which never throws
firstTraceGroupOptional(bucket) ==
  IF Len(bucket.trace_group.buckets) = 0
  THEN [threw |-> FALSE, key |-> "undefined"]
  ELSE [threw |-> FALSE, key |-> bucket.trace_group.buckets[1].key]

\* faulty variant of firstTraceGroup: the last sub-bucket in place of the first
firstTraceGroupLast(bucket) ==
  IF Len(bucket.trace_group.buckets) = 0
  THEN [threw |-> TRUE, key |-> ""]
  ELSE [threw |-> FALSE,
        key |-> bucket.trace_group.buckets[Len(bucket.trace_group.buckets)].key]

\* `bucket.trace_group.buckets[0].key`: a TypeError when there is no buckets[0]
firstTraceGroup(bucket) ==
  IF Len(bucket.trace_group.buckets) = 0
  THEN [threw |-> TRUE, key |-> ""]
  ELSE [threw |-> FALSE, key |-> bucket.trace_group.buckets[1].key]

NoFrame == [none |-> TRUE]

\* the data frame of createListTracesDataFrame (the same columns, without meta and
\* links, are those of createTracesDataFrame)
TraceFields(ids, groups, lat, errs, updated) ==
  [meta |-> [preferredVisualisationType |-> "table"],
   fields |-> << [name |-> "Trace Id", type |-> "string", values |-> ids],
                 [name |-> "Trace Group", type |-> "string", values |-> groups],
                 [name |-> "Latency (ms)", type |-> "number", values |-> lat],
                 [name |-> "Error Count", type |-> "number", values |-> errs],
                 [name |-> "Last Updated", type |-> "time", values |-> updated] >>]

(* ------------------------- the single-trace query ---------------------- *)

\* the trace ids a caller asks for; the drill-down link of the trace list puts the
\* id into the query text as 'traceId: ${__value.raw}'
TraceIdPool ==
  {"0000000000000000061141afde96cda8", "00000000000000000038b5dfd2017015",
   "00000000000000001c10de244eb9421a", "abc"}

\* the base query of a caller who asks for trace t
BaseQuery(refId, t, mode) ==
  [refId |-> refId, query |-> "traceId: " \o t, luceneQueryMode |-> mode]

TimeRange == [range |-> [startTime |-> [gte |-> "$timeFrom", lte |-> "$timeTo"]]]

\* src/unnamed/part_000
createSingleTraceQuery(query) ==
  [refId |-> query.refId, query |-> query.query,
   isSingleTrace |-> TRUE,
   luceneQueryMode |-> "traces",
   luceneQueryObj |->
     [size |-> 1000,
      query |-> [bool |-> [must |-> << TimeRange,
                                       [term |-> [traceId |-> "0000000000000000061141afde96cda8"]] >>,
                           filter |-> <<>>, should |-> <<>>, must_not |-> <<>>]]]]

\* src/src/Traces.ts
createOneTrace(query) ==
  [refId |-> query.refId, query |-> query.query,
   luceneQueryMode |-> "traces",
   luceneQueryObj |->
     [size |-> 1000,
      query |-> [bool |-> [must |-> << TimeRange,
                                       [term |-> [traceId |-> "00000000000000000038b5dfd2017015"]] >>,
                           filter |-> <<>>, should |-> <<>>, must_not |-> <<>>]]]]

NoQuery == [none |-> TRUE]

(* ------------------------------ the machine ---------------------------- *)

Init ==
  /\ pc = "idle"
  /\ span = <<>> /\ ki = 1 /\ nestedSpan = EmptyObject /\ hasError = FALSE /\ row = NoRow
  /\ buckets = <<>> /\ bi = 1
  /\ traceIds = <<>> /\ traceGroups = <<>> /\ latency = <<>> /\ errors = <<>>
  /\ lastUpdated = <<>> /\ frame = NoFrame
  /\ wantedTraceId = "" /\ baseQuery = NoQuery /\ builtQuery = NoQuery

spanVars == <<span, ki, nestedSpan, hasError, row>>
listVars == <<buckets, bi, traceIds, traceGroups, latency, errors, lastUpdated, frame>>
queryVars == <<wantedTraceId, baseQuery, builtQuery>>

\* transformTraceResponse's callback is entered with one span of spanList
EnterSpan ==
  /\ pc = "idle"
  /\ \E doc \in Docs : span' = doc
  /\ pc' = "set"
  /\ UNCHANGED <<ki, nestedSpan, hasError, row, listVars, queryVars>>

\* one turn of Object.keys(spanData).map(key => set(nestedSpan, key, spanData[key]))
SetKey ==
  /\ pc = "set" /\ ki <= Len(span)
  /\ nestedSpan' = set(nestedSpan, span[ki].key, span[ki].value)
  /\ ki' = ki + 1
  /\ UNCHANGED <<pc, span, hasError, row, listVars, queryVars>>

\* the rest of the callback: hasError and the returned row, or a TypeError
BuildRow ==
  /\ pc = "set" /\ ki > Len(span)
  /\ hasError' = HasErrorOf(nestedSpan)
  /\ IF RowThrows(nestedSpan)
     THEN pc' = "rowThrew" /\ row' = NoRow
     ELSE pc' = "row" /\ row' = SpanRow(nestedSpan, HasErrorOf(nestedSpan))
  /\ UNCHANGED <<span, ki, nestedSpan, listVars, queryVars>>

\* createListTracesDataFrame is called with a response
EnterList ==
  /\ pc = "idle"
  /\ \E list \in BucketLists : buckets' = list
  /\ pc' = "forEach"
  /\ UNCHANGED <<bi, traceIds, traceGroups, latency, errors, lastUpdated, frame,
                 spanVars, queryVars>>

\* one turn of buckets.forEach: five pushes, the second of which may throw
PushBucket ==
  /\ pc = "forEach" /\ bi <= Len(buckets)
  /\ LET bucket == buckets[bi]
     IN /\ traceIds' = Append(traceIds, bucket.key)
        /\ IF firstTraceGroup(bucket).threw
           THEN /\ pc' = "listThrew"
                /\ UNCHANGED <<bi, traceGroups, latency, errors, lastUpdated>>
           ELSE /\ traceGroups' = Append(traceGroups, firstTraceGroup(bucket).key)
                /\ latency' = Append(latency, bucket.latency.value)
                /\ errors' = Append(errors, bucket.error_count.doc_count)
                /\ lastUpdated' = Append(lastUpdated, bucket.last_updated.value)
                /\ bi' = bi + 1
                /\ pc' = pc
  /\ UNCHANGED <<buckets, frame, spanVars, queryVars>>

\* after the loop: the data frame is built and returned
ReturnFrame ==
  /\ pc = "forEach" /\ bi > Len(buckets)
  /\ frame' = TraceFields(traceIds, traceGroups, latency, errors, lastUpdated)
  /\ pc' = "frame"
  /\ UNCHANGED <<buckets, bi, traceIds, traceGroups, latency, errors, lastUpdated,
                 spanVars, queryVars>>

BuildSingleTraceQuery ==
  /\ pc = "idle"
  /\ \E refId \in {"A", "B"}, t \in TraceIdPool, mode \in {"", "traces"} :
       /\ wantedTraceId' = t
       /\ baseQuery' = BaseQuery(refId, t, mode)
       /\ builtQuery' = createSingleTraceQuery(BaseQuery(refId, t, mode))
  /\ pc' = "singleTraceQuery"
  /\ UNCHANGED <<spanVars, listVars>>

BuildOneTrace ==
  /\ pc = "idle"
  /\ \E refId \in {"A", "B"}, t \in TraceIdPool, mode \in {"", "traces"} :
       /\ wantedTraceId' = t
       /\ baseQuery' = BaseQuery(refId, t, mode)
       /\ builtQuery' = createOneTrace(BaseQuery(refId, t, mode))
  /\ pc' = "oneTrace"
  /\ UNCHANGED <<spanVars, listVars>>

\* the call is over (returned or thrown); its locals are gone
Leave ==
  /\ pc \in {"row", "rowThrew", "frame", "listThrew", "singleTraceQuery", "oneTrace"}
  /\ pc' = "idle"
  /\ span' = <<>> /\ ki' = 1 /\ nestedSpan' = EmptyObject /\ hasError' = FALSE
  /\ row' = NoRow
  /\ buckets' = <<>> /\ bi' = 1
  /\ traceIds' = <<>> /\ traceGroups' = <<>> /\ latency' = <<>> /\ errors' = <<>>
  /\ lastUpdated' = <<>> /\ frame' = NoFrame
  /\ wantedTraceId' = "" /\ baseQuery' = NoQuery /\ builtQuery' = NoQuery

Next ==
  \/ EnterSpan \/ SetKey \/ BuildRow
  \/ EnterList \/ PushBucket \/ ReturnFrame
  \/ BuildSingleTraceQuery \/ BuildOneTrace
  \/ Leave

Spec == Init /\ [][Next]_vars

(* ------------------------ what the claims speak of --------------------- *)

\* the callback is past its key loop
Normalized == (pc = "set" /\ ki > Len(span)) \/ pc \in {"row", "rowThrew"}

RowDone == pc \in {"row", "rowThrew"}

HasEventsKey(doc) == \E i \in 1..Len(doc) : doc[i].key = <<"events">>

\* the events of the raw document, none when it has no `events` key
RawEvents(doc) ==
  IF HasEventsKey(doc)
  THEN (doc[CHOOSE i \in 1..Len(doc) : doc[i].key = <<"events">>]).value.vals
  ELSE <<>>

\* the raw `attributes.error` of an event, undefined for none
RawError(event) ==
  LET attributes == event.vals[3]
  IN IF attributes.keys = <<>> THEN Undefined ELSE attributes.vals[1]

\* the values the claims call falsy: no error field, false, 0 and the empty string
FalsyError(e) == e = Undefined \/ e = Bool(FALSE) \/ e = Num(0) \/ e = Str("")

IsErrorEvent(event) == ~FalsyError(RawError(event))

\* "<event.name>: <event.attributes.error>" of the error events used here
ExpectedStackTrace(event) ==
  LET e == RawError(event)
  IN event.vals[1].s \o ": " \o
       (CASE e = Str("boom") -> "boom" [] e = Bool(TRUE) -> "true" [] e = Num(1) -> "1"
          [] OTHER -> "?")

RECURSIVE DotSegments(_, _)
\* the `.`-separated segments of a key (acc is the segment read so far)
DotSegments(key, acc) ==
  IF key = <<>> THEN <<acc>>
  ELSE IF Head(key) = "." THEN <<acc>> \o DotSegments(Tail(key), "")
  ELSE DotSegments(Tail(key), acc \o Head(key))

DotPath(key) == DotSegments(key, "")

HasDot(key) == \E i \in 1..Len(key) : key[i] = "."

IsPrefix(p, q) == Len(p) <= Len(q) /\ SubSeq(q, 1, Len(p)) = p
ProperPrefix(p, q) == IsPrefix(p, q) /\ Len(p) < Len(q)

RECURSIVE GetPath(_, _)
\* the value reached from v by following the segments of path
GetPath(v, path) == IF path = <<>> THEN v ELSE GetPath(Prop(v, Head(path)), Tail(path))

RECURSIVE SameStructure(_, _)
\* equal as nested structures, whatever the order of the keys of a mapping
SameStructure(x, y) ==
  /\ x.k = y.k /\ x.s = y.s /\ x.n = y.n /\ x.b = y.b
  /\ {x.keys[i] : i \in 1..Len(x.keys)} = {y.keys[i] : i \in 1..Len(y.keys)}
  /\ \A i \in 1..Len(x.keys) : SameStructure(x.vals[i], Prop(y, x.keys[i]))

\* the raw document as the mapping it is
AsObject(doc) ==
  Obj([i \in 1..Len(doc) |-> KeyString(doc[i].key)], [i \in 1..Len(doc) |-> doc[i].value])

\* the orders in which the keys of doc can be processed
Reorderings(doc) ==
  LET n == Len(doc)
      perms == {f \in [1..n -> 1..n] : \A i, j \in 1..n : i # j => f[i] # f[j]}
  IN {[i \in 1..n |-> doc[f[i]]] : f \in perms}

IsScalar(v) == ~isObject(v)

\* the path lodash gives a key of the (so far empty) nested span
PathOf(key) == castPath(key, EmptyObject)

Related(p, q) == IsPrefix(p, q) \/ IsPrefix(q, p)

\* one key sets a scalar at a path and another key sets a value below it
Conflict(doc) ==
  \E i, j \in 1..Len(doc) :
    IsScalar(doc[i].value) /\ ProperPrefix(PathOf(doc[i].key), PathOf(doc[j].key))

(* -------------------------------- claims ------------------------------- *)

\* C1: a document with no `events` key does not make span-row assembly throw: a row
\* is produced whose logs are the empty list and which has no stackTraces key.
C1_NoEventsKeyGivesRow ==
  (RowDone /\ ~HasEventsKey(span)) =>
    (pc = "row" /\ row.logs = <<>> /\ ~row.stackTraces.present)

\* C2: the single-trace query is marked as a single-trace request, has size 1000 and
\* requires startTime within [$timeFrom, $timeTo] and a term match on the trace id
\* the caller asked for.
C2_QueryTargetsWantedTrace ==
  (pc \in {"singleTraceQuery", "oneTrace"}) =>
    /\ "isSingleTrace" \in DOMAIN builtQuery
    /\ builtQuery.isSingleTrace
    /\ builtQuery.luceneQueryObj.size = 1000
    /\ builtQuery.luceneQueryObj.query.bool.must =
         <<TimeRange, [term |-> [traceId |-> wantedTraceId]]>>

\* C3: in every row, stackTraces is present iff some event has a truthy
\* attributes.error, and then it is the non-empty list of the strings
\* "<event.name>: <event.attributes.error>" of the error events, in event order;
\* it is never an empty list (nor undefined).
C3_StackTraces ==
  (pc = "row") =>
    LET errorEvents == SelectSeq(RawEvents(span), IsErrorEvent)
    IN /\ row.stackTraces.present <=> errorEvents # <<>>
       /\ row.stackTraces.present =>
            /\ ~row.stackTraces.value.undefined
            /\ row.stackTraces.value.list # <<>>
            /\ row.stackTraces.value.list =
                 [i \in 1..Len(errorEvents) |-> ExpectedStackTrace(errorEvents[i])]

C3_Witness ==
  /\ pc = "row"
  /\ Len(RawEvents(span)) = 2
  /\ IsErrorEvent(RawEvents(span)[2]) /\ ~IsErrorEvent(RawEvents(span)[1])
  /\ row.stackTraces.present
  /\ row.stackTraces.value.list = <<"timeout: 1">>

C6_OneRowPerBucket ==
  (pc = "frame") =>
    /\ \A c \in 1..5 : Len(frame.fields[c].values) = Len(buckets)
    /\ \A i \in 1..Len(buckets) :
         /\ frame.fields[1].values[i] = buckets[i].key
         /\ frame.fields[2].values[i] = buckets[i].trace_group.buckets[1].key
         /\ frame.fields[3].values[i] = buckets[i].latency.value
         /\ frame.fields[4].values[i] = buckets[i].error_count.doc_count
         /\ frame.fields[5].values[i] = buckets[i].last_updated.value

C6_Witness ==
  /\ pc = "frame" /\ Len(buckets) = 2
  /\ buckets[1].key = "def" /\ buckets[2].key = "abc"
  /\ Len(buckets[1].trace_group.buckets) = 2
  /\ frame.fields[1].values = <<"def", "abc">>
  /\ frame.fields[2].values = <<"login", "checkout">>

\* C7: a document none of whose keys contains a `.` is normalized to itself: the
\* same top-level keys with the same values.
C7_FlatDocumentUnchanged ==
  (Normalized /\ \A i \in 1..Len(span) : ~HasDot(span[i].key)) =>
    SameStructure(nestedSpan, AsObject(span))

\* C7, for keys that are plain names (no `.`, no bracket): the document is
\* normalized to itself.
C7_PlainNamesUnchanged ==
  (Normalized /\ \A i \in 1..Len(span) :
                   Len(span[i].key) = 1 /\ ~IsSpecial(span[i].key[1])) =>
    SameStructure(nestedSpan, AsObject(span))

\* C8: the error classification is false for the empty event list and is true iff
\* some event's attributes.error is truthy; false, 0, the empty string and a
\* missing error field do not count.
C8_ErrorClassifier ==
  (pc = "row") =>
    /\ hasError <=> \E i \in 1..Len(RawEvents(span)) : IsErrorEvent(RawEvents(span)[i])
    /\ RawEvents(span) = <<>> => ~hasError

C8_Witness ==
  /\ pc = "row" /\ ~hasError
  /\ Len(RawEvents(span)) = 2
  /\ RawError(RawEvents(span)[1]) = Num(0)
  /\ RawError(RawEvents(span)[2]) = Str("")

C10_OrderIndependent ==
  (Normalized /\ Len(span) <= MaxKeys + 1 /\ \A i, j \in 1..Len(span) :
                   ~ProperPrefix(DotPath(span[i].key), DotPath(span[j].key))) =>
    /\ \A i \in 1..Len(span) : GetPath(nestedSpan, DotPath(span[i].key)) = span[i].value
    /\ \A other \in Reorderings(span) :
         SameStructure(setAll(EmptyObject, other), nestedSpan)
\* C10, for keys that are names joined by single dots, none of them an array index:
\* the order of the keys does not matter and every value is reached by its segments.
NamesAndDots(key) ==
  /\ \A i \in 1..Len(key) : key[i] \notin {"[", "]"} /\ ~isIndex(key[i])
  /\ \A i \in 1..Len(key) : (key[i] = ".") <=> (i % 2 = 0)
  /\ Len(key) % 2 = 1

C10_NamesAndDotsOrderIndependent ==
  (/\ Normalized /\ Len(span) <= MaxKeys + 1
   /\ \A i \in 1..Len(span) : NamesAndDots(span[i].key)
   /\ \A i, j \in 1..Len(span) :
        ~ProperPrefix(DotPath(span[i].key), DotPath(span[j].key))) =>
    /\ \A i \in 1..Len(span) : GetPath(nestedSpan, DotPath(span[i].key)) = span[i].value
    /\ \A other \in Reorderings(span) :
         SameStructure(setAll(EmptyObject, other), nestedSpan)

====
